---------------------------- MODULE Spec2Model ----------------------------
(***************************************************************************)
(* Proximal operators of prox/Prox.py: the base class Prox with its        *)
(* real/complex dispatch, and the four variants L1Regularizer,             *)
(* L2Regularizer, SquaredL2Regularizer and BoxConstraint.                  *)
(*                                                                         *)
(* Numbers.  A tensor element is a floating-point number.  It is modelled  *)
(* by its IEEE 754 class (finite, infinite, NaN), its sign bit, and for a  *)
(* finite number its exact value.  Signed zeros, infinities and NaN follow *)
(* IEEE 754; rounding is not modelled: finite arithmetic, square roots     *)
(* included, is exact, on the numbers built from the rationals by the      *)
(* four operations and square roots.                                       *)
(***************************************************************************)
EXTENDS Integers, Sequences, FiniteSets

\* ------------------------------------------------------------------ bounds
\* Real tensor elements, and both parts of a complex element, are the
\* integers -MaxNum..MaxNum.
MaxNum == 3
\* An input tensor is one-dimensional and holds at most MaxLen floats: a real
\* tensor has 0..MaxLen elements, a complex one (two floats an element)
\* 0..MaxLen \div 2.
MaxLen == 2
\* Regularization weights are the integers 0..MaxLam.
MaxLam == 2
\* Box bounds: lower in -MaxBox..0, upper in 0..MaxBox.
MaxBox == 1

\* ------------------------------------------------------- algebraic numbers
\* The value of a finite number is a sum of terms (p/q)*sqrt(r)*G1*...*Gn:
\* r is a squarefree integer >= 1 (r = 1: no integer root), each generator
\* Gi = [of |-> A] is the square root of a positive irrational value A (itself
\* a sum of terms, of lower nesting depth), p # 0 and q > 0 are in lowest
\* terms, and there is one term for each pair (r, {G1..Gn}).  Values built
\* from rationals by +, -, *, / and roots of rationals have no generators,
\* and their term sets are canonical: square roots of distinct squarefree
\* integers are linearly independent over the rationals.
RECURSIVE GCD(_, _)
GCD(a, b) == IF b = 0 THEN a ELSE GCD(b, a % b)

Abs(i) == IF i < 0 THEN -i ELSE i

\* The term (p/q)*sqrt(r)*prod(g) in lowest terms, q made positive.
Term(r, g, p, q) ==
    LET c == GCD(Abs(p), Abs(q))
    IN  [r |-> r, g |-> g,
         p |-> (IF q < 0 THEN -p ELSE p) \div c, q |-> Abs(q) \div c]

Rads(a) == { x.r : x \in a }
Gens(a) == UNION { x.g : x \in a }
Keys(a) == { <<x.r, x.g>> : x \in a }
IsRational(a) == Rads(a) = {1} /\ Gens(a) = {}

TermOf(a, k) ==
    IF k \in Keys(a) THEN CHOOSE x \in a : <<x.r, x.g>> = k
    ELSE Term(k[1], k[2], 0, 1)

TAdd(a, b) ==
    LET Sum(x, y) == Term(x.r, x.g, x.p * y.q + y.p * x.q, x.q * y.q)
        S == { Sum(TermOf(a, k), TermOf(b, k)) : k \in Keys(a) \cup Keys(b) }
    IN  { x \in S : x.p # 0 }

TNeg(a) == { [x EXCEPT !.p = -x.p] : x \in a }

RECURSIVE TMul(_, _)
RECURSIVE TimesSquares(_, _)
\* a times G*G = G.of, for every generator G of gs.
TimesSquares(a, gs) ==
    IF gs = {} THEN a
    ELSE LET G == CHOOSE G \in gs : TRUE
         IN  TimesSquares(TMul(a, G.of), gs \ {G})

\* sqrt(r1)*sqrt(r2) = c*sqrt((r1/c)*(r2/c)), c = gcd(r1, r2); a generator
\* in both terms is squared.
TermMul(x, y) ==
    LET c == GCD(x.r, y.r)
    IN  TimesSquares({ Term((x.r \div c) * (y.r \div c),
                            (x.g \ y.g) \cup (y.g \ x.g),
                            x.p * y.p * c, x.q * y.q) },
                     x.g \cap y.g)

RECURSIVE TermTimes(_, _)
TermTimes(x, b) ==
    IF b = {} THEN {}
    ELSE LET y == CHOOSE y \in b : TRUE
         IN  TAdd(TermMul(x, y), TermTimes(x, b \ {y}))

TMul(a, b) ==
    IF a = {} THEN {}
    ELSE LET x == CHOOSE x \in a : TRUE
         IN  TAdd(TermTimes(x, b), TMul(a \ {x}, b))

RECURSIVE LeastFactor(_, _)
LeastFactor(n, f) == IF n % f = 0 THEN f ELSE LeastFactor(n, f + 1)

\* The least prime that divides a radicand of a.
LeastPrime(a) ==
    LET ps == { LeastFactor(r, 2) : r \in Rads(a) \ {1} }
    IN  CHOOSE pr \in ps : \A o \in ps : pr <= o

RECURSIVE Depth(_)
Depth(G) ==
    LET ds == {0} \cup { Depth(H) : H \in Gens(G.of) }
    IN  1 + CHOOSE d \in ds : \A e \in ds : e <= d

\* A generator of a of the greatest nesting depth.
TopGen(a) == CHOOSE G \in Gens(a) : \A H \in Gens(a) : Depth(H) <= Depth(G)

\* The root S an irrational a is split by, a = A + B*S with A and B free of
\* S: its top generator, or sqrt(pr) for its least prime pr when it has no
\* generator.
Pivot(a) ==
    IF Gens(a) # {} THEN [G |-> {TopGen(a)}, pr |-> 1]
    ELSE [G |-> {}, pr |-> LeastPrime(a)]

Has(x, S) == IF S.G # {} THEN S.G \subseteq x.g ELSE x.r % S.pr = 0
PartA(a, S) == { x \in a : ~Has(x, S) }
PartB(a, S) ==
    { Term(x.r \div S.pr, x.g \ S.G, x.p, x.q) : x \in { y \in a : Has(y, S) } }

\* S*S.
RootSquare(S) ==
    IF S.G # {} THEN (CHOOSE G \in S.G : TRUE).of ELSE { Term(1, {}, S.pr, 1) }

\* The conjugate A - B*S, and a times its conjugate, A^2 - B^2*S^2.
Conj(a, S) == { IF Has(x, S) THEN [x EXCEPT !.p = -x.p] ELSE x : x \in a }
NormOf(A, B, S2) == TAdd(TMul(A, A), TNeg(TMul(TMul(B, B), S2)))
Norm(a, S) == NormOf(PartA(a, S), PartB(a, S), RootSquare(S))

\* The sign of a: -1, 0 or 1.  For a = A + B*S with signs sA and sB that
\* differ, a has the sign of A when A^2 > B^2*S^2 and the sign of B when less.
RECURSIVE TSign(_)
SignOf(sA, sB, a, S) ==
    IF sA = 0 \/ sA = sB THEN sB
    ELSE IF sB = 0 THEN sA
    ELSE sA * TSign(Norm(a, S))

SignSplit(a, S) == SignOf(TSign(PartA(a, S)), TSign(PartB(a, S)), a, S)

TSign(a) ==
    IF a = {} THEN 0
    ELSE IF IsRational(a) THEN (IF (CHOOSE x \in a : TRUE).p < 0 THEN -1 ELSE 1)
    ELSE SignSplit(a, Pivot(a))

\* 1/a for a # 0: Conj(a)/Norm(a), and the norm n is free of S.  When the
\* conjugate is zero, A = B*S and a = 2*A.
RECURSIVE TInv(_)
InvOf(a, S, n) ==
    IF TSign(n) = 0 THEN TInv({ Term(x.r, x.g, 2 * x.p, x.q) : x \in PartA(a, S) })
    ELSE TMul(Conj(a, S), TInv(n))

InvSplit(a, S) == InvOf(a, S, Norm(a, S))

TInv(a) ==
    IF IsRational(a)
    THEN { Term(1, {}, x.q, x.p) : x \in a }
    ELSE InvSplit(a, Pivot(a))

\* The largest s with s*s dividing n (from the factor f on).
RECURSIVE SquarePart(_, _)
SquarePart(n, f) ==
    IF f * f > n THEN 1
    ELSE IF n % (f * f) = 0 THEN f * SquarePart(n \div (f * f), f)
    ELSE SquarePart(n, f + 1)

\* sqrt(a) for a > 0.  A rational p/q with p = c^2*m and q = b^2*n has the
\* root (c/(b*n)) * sqrt(m*n); the root of an irrational a is a generator.
TSqrt(a) ==
    IF IsRational(a)
    THEN LET x == CHOOSE x \in a : TRUE
             c == SquarePart(x.p, 2)
             b == SquarePart(x.q, 2)
             m == x.p \div (c * c)
             n == x.q \div (b * b)
         IN  { Term(m * n, {}, c, b * n) }
    ELSE { Term(1, {[of |-> a]}, 1, 1) }

\* ---------------------------------------------------- floating-point values
\* A float: its class k, its sign bit s (which tells 0.0 from -0.0), and for
\* a finite one its value t ({} for a zero).
ValOf(t, sg, zs) ==
    [k |-> "fin",
     s |-> IF sg = 0 THEN zs ELSE IF sg < 0 THEN 1 ELSE 0,
     t |-> IF sg = 0 THEN {} ELSE t]

Val(t, zs) == ValOf(t, TSign(t), zs)

\* The rational (-1)^s * n/d.
Fin(s, n, d) ==
    [k |-> "fin", s |-> s,
     t |-> IF n = 0 THEN {} ELSE { Term(1, {}, IF s = 1 THEN -n ELSE n, d) }]

NaN == [k |-> "nan", s |-> 0, t |-> {}]
Inf(s) == [k |-> "inf", s |-> s, t |-> {}]
Zero == Fin(0, 0, 1)
NegZero == Fin(1, 0, 1)
One == Fin(0, 1, 1)
Two == Fin(0, 2, 1)

IsNaN(x) == x.k = "nan"
IsZero(x) == x.k = "fin" /\ x.t = {}
Xor(a, b) == IF a = b THEN 0 ELSE 1

FNeg(x) == IF IsNaN(x) THEN NaN ELSE [x EXCEPT !.s = 1 - x.s, !.t = TNeg(x.t)]
FAbs(x) ==
    IF IsNaN(x) THEN NaN
    ELSE [x EXCEPT !.s = 0, !.t = IF x.s = 1 THEN TNeg(x.t) ELSE x.t]

\* IEEE addition: x + (-x) = +0, and (-0) + (-0) = -0.
FAdd(x, y) ==
    IF IsNaN(x) \/ IsNaN(y) THEN NaN
    ELSE IF x.k = "inf" /\ y.k = "inf" THEN (IF x.s = y.s THEN x ELSE NaN)
    ELSE IF x.k = "inf" THEN x
    ELSE IF y.k = "inf" THEN y
    ELSE Val(TAdd(x.t, y.t), IF x.s = 1 /\ y.s = 1 THEN 1 ELSE 0)

FSub(x, y) == FAdd(x, FNeg(y))

FMul(x, y) ==
    IF IsNaN(x) \/ IsNaN(y) THEN NaN
    ELSE IF (x.k = "inf" /\ IsZero(y)) \/ (IsZero(x) /\ y.k = "inf") THEN NaN
    ELSE IF x.k = "inf" \/ y.k = "inf" THEN Inf(Xor(x.s, y.s))
    ELSE [k |-> "fin", s |-> Xor(x.s, y.s), t |-> TMul(x.t, y.t)]

\* IEEE division: 0/0 and inf/inf are NaN, x/0 is a signed infinity.
FDiv(x, y) ==
    IF IsNaN(x) \/ IsNaN(y) THEN NaN
    ELSE IF x.k = "inf" /\ y.k = "inf" THEN NaN
    ELSE IF IsZero(x) /\ IsZero(y) THEN NaN
    ELSE IF x.k = "inf" \/ IsZero(y) THEN Inf(Xor(x.s, y.s))
    ELSE IF y.k = "inf" \/ IsZero(x) THEN [k |-> "fin", s |-> Xor(x.s, y.s), t |-> {}]
    ELSE [k |-> "fin", s |-> Xor(x.s, y.s), t |-> TMul(x.t, TInv(y.t))]

\* x < y; false when either is NaN; the two zeros are equal.
FLt(x, y) ==
    IF IsNaN(x) \/ IsNaN(y) THEN FALSE
    ELSE IF x.k = "inf" THEN x.s = 1 /\ ~(y.k = "inf" /\ y.s = 1)
    ELSE IF y.k = "inf" THEN y.s = 0
    ELSE TSign(TAdd(x.t, TNeg(y.t))) < 0

\* x == y as Python compares floats: NaN equals nothing, -0.0 equals 0.0.
FEq(x, y) == ~IsNaN(x) /\ ~IsNaN(y) /\ ~FLt(x, y) /\ ~FLt(y, x)
FLe(x, y) == FLt(x, y) \/ FEq(x, y)

\* sqrt(x): NaN below zero, sqrt(-0.0) = -0.0, the exact root otherwise.
FSqrt(x) ==
    IF IsNaN(x) THEN NaN
    ELSE IF IsZero(x) THEN x
    ELSE IF x.s = 1 THEN NaN
    ELSE IF x.k = "inf" THEN x
    ELSE [k |-> "fin", s |-> 0, t |-> TSqrt(x.t)]


\* ------------------------------------------------------------------ tensors
\* A one-dimensional tensor: its dtype ("real" or "complex") and its
\* elements, floats or complex pairs [re, im].
Tensor(dtype, data) == [dtype |-> dtype, data |-> data]
Complex(re, im) == [re |-> re, im |-> im]

\* torch.atan: the angle in [-pi/2, pi/2] whose tangent is x, kept as that
\* tangent (atan(+-inf) = +-pi/2, atan(NaN) = NaN).
torch_atan(x) == [tan |-> x]

Hyp(t) == FSqrt(FAdd(One, FMul(t, t)))

\* torch.cos of an angle atan(t): 1/sqrt(1+t^2), and cos(+-pi/2) = 0 (the
\* float result there is a rounding residue of about 6e-17).
torch_cos(a) ==
    IF IsNaN(a.tan) THEN NaN
    ELSE IF a.tan.k = "inf" THEN Zero
    ELSE FDiv(One, Hyp(a.tan))

\* torch.sin of an angle atan(t): t/sqrt(1+t^2), and sin(+-pi/2) = +-1.
torch_sin(a) ==
    IF IsNaN(a.tan) THEN NaN
    ELSE IF a.tan.k = "inf" THEN Fin(a.tan.s, 1, 1)
    ELSE FDiv(a.tan, Hyp(a.tan))

\* abs() of one element: |x| for a float, hypot(re, im) for a complex.
torch_abs(dtype, e) ==
    IF dtype = "complex"
    THEN FSqrt(FAdd(FMul(e.re, e.re), FMul(e.im, e.im)))
    ELSE FAbs(e)

\* v.abs(): a real tensor of the elementwise magnitudes.
Tensor_abs(v) ==
    Tensor("real", [i \in 1..Len(v.data) |-> torch_abs(v.dtype, v.data[i])])

RECURSIVE SumSq(_)
SumSq(s) == IF s = <<>> THEN Zero
            ELSE FAdd(FMul(Head(s), Head(s)), SumSq(Tail(s)))

\* torch.linalg.norm(v) of a real vector: its Euclidean norm.
torch_linalg_norm(v) == FSqrt(SumSq(v.data))

\* torch.max(a, b), elementwise maximum; NaN propagates.
torch_max(a, b) ==
    IF IsNaN(a) \/ IsNaN(b) THEN NaN ELSE IF FLt(a, b) THEN b ELSE a

\* torch.clamp(x, l, u) == min(max(x, l), u); NaN propagates.
torch_clamp(x, l, u) ==
    IF IsNaN(x) THEN NaN
    ELSE LET m == IF FLt(x, l) THEN l ELSE x
         IN  IF FLt(u, m) THEN u ELSE m

\* A shrinkage that keeps the values outside the band unchanged.
Hardshrink(lambd, x) ==
    IF FLt(lambd, x) THEN x
    ELSE IF FLt(x, FNeg(lambd)) THEN x
    ELSE Zero

\* torch.nn.Softshrink(lambd) on one element.
Softshrink(lambd, x) ==
    IF FLt(lambd, x) THEN FSub(x, lambd)
    ELSE IF FLt(x, FNeg(lambd)) THEN FAdd(x, lambd)
    ELSE Zero

\* complex * real: the real operand is promoted to x + 0i.
Complex_mul(z, x) ==
    Complex(FSub(FMul(z.re, x), FMul(z.im, Zero)),
            FAdd(FMul(z.re, Zero), FMul(z.im, x)))

\* ------------------------------------------------- linear maps (transform T)
NoT == [name |-> "None", property |-> {}]
\* The LinearMap objects handed to L1Regularizer: the identity, a sign flip
\* and a permutation (all unitary, and reporting it), and a scaling by two
\* (not unitary, reporting nothing).
LinearMaps ==
    { [name |-> "identity", property |-> {"unitary"}],
      [name |-> "negate", property |-> {"unitary"}],
      [name |-> "reverse", property |-> {"unitary"}],
      [name |-> "double", property |-> {}] }

Reverse(s) == [i \in 1..Len(s) |-> s[Len(s) + 1 - i]]

\* T(v) for a real tensor v.
LinearMap_call(T, v) ==
    CASE T.name = "identity" -> v
      [] T.name = "negate" -> Tensor(v.dtype, [i \in 1..Len(v.data) |-> FNeg(v.data[i])])
      [] T.name = "reverse" -> Tensor(v.dtype, Reverse(v.data))
      [] T.name = "double" ->
             Tensor(v.dtype, [i \in 1..Len(v.data) |-> FMul(Two, v.data[i])])

\* ---------------------------------------------------------------- operators
NoObject == [cls |-> "NoneType"]

\* A constructor without the assertion on T.property.
L1Regularizer_init_unchecked(Lambda, T) ==
    [cls |-> "L1Regularizer", Lambda |-> Lambda, T |-> T]

\* L1Regularizer.__init__: the object, or NoObject when the assertion fails.
L1Regularizer_init(Lambda, T) ==
    IF T # NoT /\ ~("unitary" \in T.property)
    THEN NoObject
    ELSE [cls |-> "L1Regularizer", Lambda |-> Lambda, T |-> T]

L2Regularizer_init(Lambda) == [cls |-> "L2Regularizer", Lambda |-> Lambda]

SquaredL2Regularizer_init(Lambda) ==
    [cls |-> "SquaredL2Regularizer", Lambda |-> Lambda]

BoxConstraint_init(Lambda, lower, upper) ==
    [cls |-> "BoxConstraint", l |-> lower, u |-> upper, Lambda |-> Lambda]

\* A shrinkage step that thresholds without subtracting Lambda.
L1Regularizer_apply_hard(self, v) ==
    LET w == IF self.T # NoT THEN LinearMap_call(self.T, v) ELSE v
    IN  Tensor(w.dtype, [i \in 1..Len(w.data) |-> Hardshrink(self.Lambda, w.data[i])])

L1Regularizer_apply(self, v) ==
    LET w == IF self.T # NoT THEN LinearMap_call(self.T, v) ELSE v
    IN  Tensor(w.dtype, [i \in 1..Len(w.data) |-> Softshrink(self.Lambda, w.data[i])])

\* scale = 1.0 - Lambda / max(Lambda, ||v||); x = scale * v.  (The rounding
\* of Lambda to single precision in torch.Tensor([Lambda]) is not modelled.)
L2Regularizer_apply(self, v) ==
    LET scale == FSub(One, FDiv(self.Lambda,
                                torch_max(self.Lambda, torch_linalg_norm(v))))
    IN  Tensor(v.dtype, [i \in 1..Len(v.data) |-> FMul(scale, v.data[i])])

SquaredL2Regularizer_apply(self, v) ==
    Tensor(v.dtype,
           [i \in 1..Len(v.data) |->
              FDiv(v.data[i], FAdd(One, FMul(Two, self.Lambda)))])

\* A clamp that applies the lower bound only.
BoxConstraint_apply_lower_only(self, v) ==
    Tensor(v.dtype, [i \in 1..Len(v.data) |-> torch_max(v.data[i], self.l)])

BoxConstraint_apply(self, v) ==
    Tensor(v.dtype,
           [i \in 1..Len(v.data) |-> torch_clamp(v.data[i], self.l, self.u)])

\* self._apply(v): the variant's method.
self_apply(self, v) ==
    CASE self.cls = "L1Regularizer" -> L1Regularizer_apply(self, v)
      [] self.cls = "L2Regularizer" -> L2Regularizer_apply(self, v)
      [] self.cls = "SquaredL2Regularizer" -> SquaredL2Regularizer_apply(self, v)
      [] self.cls = "BoxConstraint" -> BoxConstraint_apply(self, v)

\* Prox._complex(v): cos(angle) + i sin(angle), angle = atan(imag/real).
Prox_complex(v) ==
    Tensor("complex",
           [i \in 1..Len(v.data) |->
              LET angle == torch_atan(FDiv(v.data[i].im, v.data[i].re))
              IN  Complex(torch_cos(angle), torch_sin(angle))])

\* Prox.__call__(v): the returned tensor.
Prox_call(self, v) ==
    IF v.dtype = "complex"
    THEN LET ph == Prox_complex(v)
             x == self_apply(self, Tensor_abs(v))
         IN  Tensor("complex",
                    [i \in 1..Len(v.data) |-> Complex_mul(ph.data[i], x.data[i])])
    ELSE self_apply(self, v)

\* A call that computes in place: the result is written into the caller's
\* tensor.
Call_inplace(self, v) ==
    [ret |-> Prox_call(self, v), self |-> self, v |-> Prox_call(self, v)]

\* One call self(v) as a whole: the value returned, and the operator object
\* and the caller's tensor as the call leaves them.  No method assigns an
\* attribute of self; every tensor operation is out of place, and
\* `v = self.T(v)` rebinds a local name.
Call(self, v) == [ret |-> Prox_call(self, v), self |-> self, v |-> v]

\* ------------------------------------------------------------ input domains
FInt(k) == Fin(IF k < 0 THEN 1 ELSE 0, IF k < 0 THEN -k ELSE k, 1)
RealVals == { FInt(k) : k \in -MaxNum..MaxNum }

\* Complex elements: both parts integers; the real part may be -0.0 (the
\* Python literal -3j has real part -0.0).
ComplexVals == [re : RealVals \cup {NegZero}, im : RealVals]

SeqsUpTo(S, n) == UNION { [1..m -> S] : m \in 0..n }
RealTensors == { Tensor("real", d) : d \in SeqsUpTo(RealVals, MaxLen) }
NoTensor == Tensor("none", <<>>)

\* Regularization weights: Lambda >= 0 (Softshrink rejects a negative one).
Lambdas == { FInt(k) : k \in 0..MaxLam }
Lowers == { FInt(-k) : k \in 0..MaxBox }
Uppers == { FInt(k) : k \in 0..MaxBox }

\* The constructor calls a caller makes: the class and its arguments.
NoArgs == [cls |-> "NoneType"]
CtorArgs ==
    [cls : {"L1Regularizer"}, Lambda : Lambdas, T : {NoT} \cup LinearMaps]
    \cup [cls : {"L2Regularizer", "SquaredL2Regularizer"}, Lambda : Lambdas]
    \cup [cls : {"BoxConstraint"}, Lambda : Lambdas,
          lower : Lowers, upper : Uppers]

\* cls(*args): the constructed object, or NoObject when __init__ raises.
New(a) ==
    CASE a.cls = "L1Regularizer" -> L1Regularizer_init(a.Lambda, a.T)
      [] a.cls = "L2Regularizer" -> L2Regularizer_init(a.Lambda)
      [] a.cls = "SquaredL2Regularizer" -> SquaredL2Regularizer_init(a.Lambda)
      [] a.cls = "BoxConstraint" ->
             BoxConstraint_init(a.Lambda, a.lower, a.upper)

\* -------------------------------------------------------------------- state
VARIABLES
    pc,     \* "new", "failed", "constructed", "ready", "called", "recalled"
    args,   \* the constructor call made
    op,     \* the operator object (NoObject: none exists)
    v,      \* the caller's input tensor
    given,  \* the contents the caller put into v
    out     \* the tensor the last call returned

vars == <<pc, args, op, v, given, out>>

Init ==
    /\ pc = "new"
    /\ args = NoArgs
    /\ op = NoObject
    /\ v = NoTensor
    /\ given = NoTensor
    /\ out = NoTensor

\* The caller constructs an operator; a failed assertion leaves no object.
Construct ==
    /\ pc = "new"
    /\ \E a \in CtorArgs :
         /\ args' = a
         /\ op' = New(a)
         /\ pc' = IF New(a) = NoObject THEN "failed" ELSE "constructed"
    /\ UNCHANGED <<v, given, out>>

\* The caller allocates its next input tensor, torch.zeros(n, dtype=...).
Allocate ==
    /\ pc \in {"constructed", "ready", "called", "recalled"}
    /\ \E w \in { Tensor("real", [i \in 1..n |-> Zero]) : n \in 0..MaxLen }
             \cup { Tensor("complex", [i \in 1..n |-> Complex(Zero, Zero)]) :
                      n \in 0..(MaxLen \div 2) } :
         /\ v' = w
         /\ given' = w
    /\ out' = NoTensor
    /\ pc' = "ready"
    /\ UNCHANGED <<args, op>>

\* The caller (the surrounding algorithm) writes one element of its tensor.
Write ==
    /\ pc \in {"ready", "called", "recalled"}
    /\ \E i \in 1..Len(v.data) :
         \E x \in IF v.dtype = "complex" THEN ComplexVals ELSE RealVals :
            /\ v' = [v EXCEPT !.data[i] = x]
            /\ given' = [v EXCEPT !.data[i] = x]
    /\ out' = NoTensor
    /\ pc' = "ready"
    /\ UNCHANGED <<args, op>>

\* out = op(v).
Evaluate ==
    /\ pc \in {"ready", "called", "recalled"}
    /\ \E r \in {Call(op, v)} :
         /\ out' = r.ret
         /\ op' = r.self
         /\ v' = r.v
    /\ pc' = IF pc = "ready" THEN "called" ELSE "recalled"
    /\ UNCHANGED <<args, given>>

Next == Construct \/ Allocate \/ Write \/ Evaluate

Spec == Init /\ [][Next]_vars

Evaluated == pc \in {"called", "recalled"}

\* ------------------------------------------------------- claims: vocabulary
\* Numeric equality of complex elements and of tensors (NaN equals nothing).
CEq(a, b) == FEq(a.re, b.re) /\ FEq(a.im, b.im)
EqT(a, b) ==
    /\ a.dtype = b.dtype
    /\ Len(a.data) = Len(b.data)
    /\ \A i \in 1..Len(a.data) :
         IF a.dtype = "complex" THEN CEq(a.data[i], b.data[i])
         ELSE FEq(a.data[i], b.data[i])

Idx == 1..Len(v.data)
Sign(x) == IF FLt(Zero, x) THEN One ELSE IF FLt(x, Zero) THEN FNeg(One) ELSE Zero
CIsNaN(z) == IsNaN(z.re) \/ IsNaN(z.im)
CNonzero(z) == ~(IsZero(z.re) /\ IsZero(z.im))
\* The unit direction z/|z| of a complex element.
UnitDirection(z) ==
    Complex(FDiv(z.re, torch_abs("complex", z)), FDiv(z.im, torch_abs("complex", z)))
ImagUnit == Complex(Zero, One)

\* C1: for the L1 (no transform), L2, squared-L2 and box operators and a
\* complex input whose elements are all nonzero, the call returns, element
\* by element, (v/|v|) times the real-path result on |v|, in every quadrant.
C1_ComplexDispatch ==
    ( /\ Evaluated
      /\ v.dtype = "complex"
      /\ op.cls = "L1Regularizer" => op.T = NoT
      /\ \A i \in Idx : CNonzero(v.data[i]) )
    => \A i \in Idx :
         CEq(out.data[i],
             Complex_mul(UnitDirection(v.data[i]),
                         Prox_call(op, Tensor_abs(v)).data[i]))

\* C2: an L1 operator without transform maps each real element to 0 when
\* |v[i]| <= Lambda (the boundary included) and to v[i] - Lambda*sign(v[i])
\* otherwise.
C2_L1SoftThreshold ==
    (Evaluated /\ op.cls = "L1Regularizer" /\ op.T = NoT /\ v.dtype = "real")
    => /\ out.dtype = "real"
       /\ Len(out.data) = Len(v.data)
       /\ \A i \in Idx :
            IF FLe(FAbs(v.data[i]), op.Lambda)
            THEN FEq(out.data[i], Zero)
            ELSE FEq(out.data[i],
                     FSub(v.data[i], FMul(op.Lambda, Sign(v.data[i]))))

\* Lambda = 2 on [-3, 2]: -3 is shrunk to -1, the boundary value 2 to 0.
C2_Witness ==
    /\ Evaluated
    /\ op.cls = "L1Regularizer" /\ op.T = NoT /\ op.Lambda = Two
    /\ v = Tensor("real", <<FInt(-3), FInt(2)>>)
    /\ EqT(out, Tensor("real", <<FInt(-1), Zero>>))

\* Twice the objective 1/2*||x - w||^2 + Lambda*||T x||_1.
Objective2(self, x, w) ==
    LET RECURSIVE Sum(_)
        Sum(s) == IF s = <<>> THEN Zero ELSE FAdd(Head(s), Sum(Tail(s)))
        d == [i \in 1..Len(x.data) |->
                FMul(FSub(x.data[i], w.data[i]), FSub(x.data[i], w.data[i]))]
        tx == [i \in 1..Len(x.data) |-> FAbs(LinearMap_call(self.T, x).data[i])]
    IN  FAdd(Sum(d), FMul(FMul(Two, self.Lambda), Sum(tx)))

\* C3: for an L1 operator with a unitary transform T and a real input, the
\* returned tensor minimizes 1/2*||x - v||^2 + Lambda*||T x||_1: no candidate
\* x of the same length has a strictly smaller objective.
C3_L1TransformMinimizer ==
    (Evaluated /\ op.cls = "L1Regularizer" /\ op.T # NoT /\ v.dtype = "real")
    => \A x \in RealTensors :
         Len(x.data) = Len(v.data)
         => ~FLt(Objective2(op, x, v), Objective2(op, out, v))

\* C4: an L2 operator maps every real input with ||v|| <= Lambda (Lambda = 0
\* and v = 0 included) to the zero tensor.
C4_L2ShrinkToZero ==
    ( /\ Evaluated
      /\ op.cls = "L2Regularizer"
      /\ v.dtype = "real"
      /\ FLe(torch_linalg_norm(v), op.Lambda) )
    => /\ Len(out.data) = Len(v.data)
       /\ \A i \in Idx : FEq(out.data[i], Zero)

\* C5: a box operator with lower <= upper clamps each real element into
\* [lower, upper], keeps the elements already inside, and returns the same
\* tensor whatever its Lambda.
C5_BoxClamp ==
    (Evaluated /\ op.cls = "BoxConstraint" /\ v.dtype = "real" /\ FLe(op.l, op.u))
    => /\ out.dtype = "real"
       /\ Len(out.data) = Len(v.data)
       /\ \A i \in Idx :
            /\ FEq(out.data[i],
                   IF FLt(v.data[i], op.l) THEN op.l
                   ELSE IF FLt(op.u, v.data[i]) THEN op.u
                   ELSE v.data[i])
            /\ FLe(op.l, out.data[i]) /\ FLe(out.data[i], op.u)
            /\ (FLe(op.l, v.data[i]) /\ FLe(v.data[i], op.u))
                 => FEq(out.data[i], v.data[i])
       /\ \A lam \in Lambdas :
            EqT(Prox_call(BoxConstraint_init(lam, op.l, op.u), v), out)

\* lower = 0, upper = 1, Lambda = 2 on [-1, 2]: the result is [0, 1].
C5_Witness ==
    /\ Evaluated
    /\ op.cls = "BoxConstraint" /\ op.l = Zero /\ op.u = One /\ op.Lambda = Two
    /\ v = Tensor("real", <<FInt(-1), FInt(2)>>)
    /\ EqT(out, Tensor("real", <<Zero, One>>))

\* The constructor call names a transform that does not report 'unitary'.
NonUnitaryArgs ==
    /\ args.cls = "L1Regularizer"
    /\ args.T # NoT
    /\ ~("unitary" \in args.T.property)

\* C6: constructing an L1 operator with a transform that does not report
\* 'unitary' fails and leaves no operator object, so nothing is ever
\* evaluated; every other construction yields the operator.
C6_UnitaryPrecondition ==
    pc # "new"
    => /\ NonUnitaryArgs => (pc = "failed" /\ op = NoObject /\ out = NoTensor)
       /\ ~NonUnitaryArgs => (pc # "failed" /\ op # NoObject /\ op.cls = args.cls)
       /\ (op.cls = "L1Regularizer" /\ op.T # NoT) => "unitary" \in op.T.property

\* The construction with the scaling by two has failed.
C6_Witness ==
    /\ pc = "failed"
    /\ args.cls = "L1Regularizer" /\ args.T.name = "double"
    /\ op = NoObject

\* C7: an L1 operator (with or without a unitary transform) and a
\* squared-L2 operator, constructed with Lambda = 0, return every real input
\* unchanged.
C7_ZeroLambdaIdentity ==
    ( /\ Evaluated
      /\ op.cls \in {"L1Regularizer", "SquaredL2Regularizer"}
      /\ IsZero(op.Lambda)
      /\ v.dtype = "real" )
    => EqT(out, v)

\* C8: an L2 operator constructed with Lambda = 0 returns every real input
\* unchanged, the zero tensor included.
C8_L2ZeroLambdaIdentity ==
    (Evaluated /\ op.cls = "L2Regularizer" /\ IsZero(op.Lambda) /\ v.dtype = "real")
    => EqT(out, v)

\* C9: in the complex path an element with Re = 0 has phase i when Im > 0
\* and -i when Im < 0, and a defined output; with Re = 0 and Im = 0 its phase
\* and its output are NaN.
C9_ZeroRealPartPhase ==
    (Evaluated /\ v.dtype = "complex")
    => \A i \in Idx :
         LET z == v.data[i]
             ph == Prox_complex(v).data[i]
         IN  IsZero(z.re)
             => /\ FLt(Zero, z.im)
                     => (CEq(ph, ImagUnit) /\ ~CIsNaN(out.data[i]))
                /\ FLt(z.im, Zero)
                     => (CEq(ph, Complex(Zero, FNeg(One))) /\ ~CIsNaN(out.data[i]))
                /\ IsZero(z.im) => (CIsNaN(ph) /\ CIsNaN(out.data[i]))

\* C10: after any calls, the operator holds the parameters it was
\* constructed with, the caller's tensor holds what the caller put there, and
\* the value returned is the one the freshly constructed operator returns
\* for that input (so equal inputs give equal outputs, whatever was called
\* in between).
C10_CallsArePure ==
    Evaluated
    => /\ op = New(args)
       /\ v = given
       /\ out = Prox_call(New(args), given)

\* A second call on the same complex input of an L2 operator has returned.
C10_Witness ==
    /\ pc = "recalled"
    /\ op.cls = "L2Regularizer" /\ op.Lambda = One
    /\ v = Tensor("complex", <<Complex(FInt(-2), Zero)>>)
    /\ ~CIsNaN(out.data[1])

=============================================================================
